---- MODULE Spec2Model ----
(***************************************************************************)
(* Model of the LINE Login middleware (module/line-login.js): the          *)
(* constructor, the authorization-flow controller LineLogin.auth /         *)
(* LineLogin.callback with make_auth_url, the token and profile operations *)
(* (issue_access_token and its siblings), and the two library calls the    *)
(* callback relies on (secure-compare and jsonwebtoken.verify).            *)
(*                                                                         *)
(* Spec is the flow of auth() and callback() over two sessions; SpecFair   *)
(* follows one session and adds that the provider answers; SpecAttempts    *)
(* follows one session and keeps the pair each auth() overwrites;          *)
(* SpecConstructor and SpecOperation run the constructor and a single      *)
(* operation on their own.                                                 *)
(*                                                                         *)
(* req.session is modelled as the per-user key-value store the code reads  *)
(* and writes through req.session.line_login_state / line_login_nonce.     *)
(* The caller-supplied handlers s and f are assumed to return normally.    *)
(***************************************************************************)
EXTENDS Integers, Sequences, FiniteSets, TLC

(* ---------------------------------------------------------------------- *)
(* Bounds                                                                  *)
(* ---------------------------------------------------------------------- *)
\* number of callback requests that can be received
MaxReqs == 2

Reqs == 1..MaxReqs
\* the user sessions of the session store: two users
Sessions == {"A", "B"}
\* the character codes that make up the strings of the model
Chars == {1, 2}

(* ---------------------------------------------------------------------- *)
(* JavaScript values: undefined and strings (sequences of char codes)      *)
(* ---------------------------------------------------------------------- *)
Undefined == [type |-> "undefined", val |-> <<>>]
Str(s) == [type |-> "string", val |-> s]
\* ToBoolean of a value: undefined and "" are falsy
Truthy(v) == v.type = "string" /\ Len(v.val) > 0

\* the strings crypto.randomBytes(..).toString('hex') can return: all of one
\* fixed length
Tokens == {Str(<<c>>) : c \in Chars}
\* what _random() can return
RandomValues == Tokens

\* the values a query parameter `state` can carry: absent, any token, and a
\* token with one more character appended
QueryStates == {Undefined} \cup Tokens \cup {Str(<<1, 1>>)}
\* the values a query parameter `code` can carry: absent, empty, a code
QueryCodes == {Undefined, Str(<<>>), Str(<<1>>)}

(* ---------------------------------------------------------------------- *)
(* secure-compare                                                          *)
(* ---------------------------------------------------------------------- *)
RECURSIVE BitXor(_, _)
BitXor(a, b) ==
    IF a = 0 /\ b = 0 THEN 0
    ELSE (((a % 2) + (b % 2)) % 2) + 2 * BitXor(a \div 2, b \div 2)

RECURSIVE BitOr(_, _)
BitOr(a, b) ==
    IF a = 0 /\ b = 0 THEN 0
    ELSE (IF (a % 2) = 1 \/ (b % 2) = 1 THEN 1 ELSE 0) + 2 * BitOr(a \div 2, b \div 2)

\* for (i = 0; i < a.length; ++i) mismatch |= a.charCodeAt(i) ^ b.charCodeAt(i)
RECURSIVE CompareLoop(_, _, _, _)
CompareLoop(a, b, i, mismatch) ==
    IF i > Len(a) THEN mismatch
    ELSE CompareLoop(a, b, i + 1, BitOr(mismatch, BitXor(a[i], b[i])))

\* secure_compare(a, b): false unless both are strings; a length mismatch
\* sets the mismatch flag and compares a with itself
secure_compare(a, b) ==
    IF a.type # "string" \/ b.type # "string" THEN FALSE
    ELSE LET mismatch == IF Len(a.val) = Len(b.val) THEN 0 ELSE 1
             b2 == IF mismatch # 0 THEN a.val ELSE b.val
         IN  CompareLoop(a.val, b2, 1, mismatch) = 0

(* ---------------------------------------------------------------------- *)
(* Configuration (the fields set by the constructor) and handlers          *)
(* ---------------------------------------------------------------------- *)
ChannelId == "channel_id"
ChannelSecret == "channel_secret"
CallbackUrl == "https://example.com/callback"
Issuer == "https://access.line.me"

(* ---------------------------------------------------------------------- *)
(* constructor(options)                                                    *)
(* ---------------------------------------------------------------------- *)
\* option values: a key that is not in the object, text, booleans, objects
Absent == [type |-> "absent"]
Text(t) == [type |-> "string", text |-> t]
Bool(b) == [type |-> "boolean", bool |-> b]
Obj == [type |-> "object"]
\* !value
Falsy(v) == v = Absent \/ v = Undefined \/ v = Text("") \/ v = Bool(FALSE)

required_params == <<"channel_id", "channel_secret", "callback_url">>
optional_params == <<"scope", "prompt", "bot_prompt", "session_options", "verify_id_token">>
Range(seq) == {seq[i] : i \in DOMAIN seq}

\* the keys an options object of the model can have: the ones the
\* constructor names, and one more
OptionKeys == Range(required_params) \cup Range(optional_params) \cup {"invalid_param"}
\* Object.keys(options)
Keys(options) == {k \in OptionKeys : options[k] # Absent}

\* the options objects handed to the constructor
AllOptions ==
    [channel_id : {Absent, Undefined, Text(""), Text(ChannelId)},
     channel_secret : {Absent, Undefined, Text(""), Text(ChannelSecret)},
     callback_url : {Absent, Undefined, Text(""), Text(CallbackUrl)},
     scope : {Absent, Text("profile")},
     prompt : {Absent, Text("consent")},
     bot_prompt : {Absent, Text("aggressive")},
     session_options : {Absent, Obj},
     verify_id_token : {Absent, Bool(TRUE), Bool(FALSE)},
     invalid_param : {Absent, Text("x")}]
\* the least a caller must give
BaseOptions ==
    [channel_id |-> Text(ChannelId), channel_secret |-> Text(ChannelSecret),
     callback_url |-> Text(CallbackUrl), scope |-> Absent, prompt |-> Absent,
     bot_prompt |-> Absent, session_options |-> Absent,
     verify_id_token |-> Absent, invalid_param |-> Absent]

\* new Error(message): a template literal is the sequence of its pieces
Thrown(message) == [constructed |-> TRUE, ok |-> FALSE, message |-> message]
NotConstructed == [constructed |-> FALSE]

\* a || b
OrElse(a, b) == IF Falsy(a) THEN b ELSE a
\* options[key]
Get(options, key) == IF options[key] = Absent THEN Undefined ELSE options[key]

\* variant: verify_id_token is defaulted with ||
constructor_VerifyOrTrue(options) ==
    LET missing == {i \in DOMAIN required_params : Falsy(options[required_params[i]])}
        first == CHOOSE i \in missing : \A j \in missing : i <= j
        invalid == {k \in Keys(options) :
                        k \notin Range(required_params) \cup Range(optional_params)}
    IN  IF missing # {}
        THEN Thrown(<<"Required parameter ", required_params[first], " is missing.">>)
        ELSE IF invalid # {}
        THEN Thrown(<<(CHOOSE k \in invalid : TRUE), " is not a valid parameter.">>)
        ELSE [constructed |-> TRUE, ok |-> TRUE,
              channel_id |-> Get(options, "channel_id"),
              channel_secret |-> Get(options, "channel_secret"),
              callback_url |-> Get(options, "callback_url"),
              scope |-> OrElse(Get(options, "scope"), Text("profile openid")),
              prompt |-> Get(options, "prompt"),
              bot_prompt |-> OrElse(Get(options, "bot_prompt"), Text("normal")),
              verify_id_token |-> OrElse(Get(options, "verify_id_token"), Bool(TRUE))]

\* the constructor: the instance, or the error it throws
constructor(options) ==
    LET missing == {i \in DOMAIN required_params : Falsy(options[required_params[i]])}
        first == CHOOSE i \in missing : \A j \in missing : i <= j
        invalid == {k \in Keys(options) :
                        k \notin Range(required_params) \cup Range(optional_params)}
    IN  IF missing # {}
        THEN Thrown(<<"Required parameter ", required_params[first], " is missing.">>)
        ELSE IF invalid # {}
        THEN Thrown(<<(CHOOSE k \in invalid : TRUE), " is not a valid parameter.">>)
        ELSE [constructed |-> TRUE, ok |-> TRUE,
              channel_id |-> Get(options, "channel_id"),
              channel_secret |-> Get(options, "channel_secret"),
              callback_url |-> Get(options, "callback_url"),
              scope |-> OrElse(Get(options, "scope"), Text("profile openid")),
              prompt |-> Get(options, "prompt"),
              bot_prompt |-> OrElse(Get(options, "bot_prompt"), Text("normal")),
              verify_id_token |-> IF Get(options, "verify_id_token") = Undefined
                                  THEN Bool(TRUE)
                                  ELSE Get(options, "verify_id_token")]

(* ---------------------------------------------------------------------- *)
(* Identity tokens and jsonwebtoken.verify                                 *)
(* ---------------------------------------------------------------------- *)
NoIdToken == [form |-> "absent"]
Claims(aud, iss, expired, nonce) ==
    [form |-> "claims", aud |-> aud, iss |-> iss, expired |-> expired, nonce |-> nonce]
\* a compact JWT: the header's alg, the key its signature was made with, and
\* its payload
Jwt(alg, key, claims) == [form |-> "jwt", alg |-> alg, key |-> key, claims |-> claims]

ClaimNonces == Tokens \cup {Undefined}
\* a token the provider issued for this channel, and the tokens that differ
\* from it in exactly one checked property
ValidJwts == {Jwt("HS256", ChannelSecret, Claims(ChannelId, Issuer, FALSE, n)) : n \in ClaimNonces}
DefectJwts ==
    {Jwt("none", ChannelSecret, Claims(ChannelId, Issuer, FALSE, n)) : n \in Tokens}
    \cup {Jwt("HS256", "other_secret", Claims(ChannelId, Issuer, FALSE, n)) : n \in Tokens}
    \cup {Jwt("HS256", ChannelSecret, Claims("other_channel", Issuer, FALSE, n)) : n \in Tokens}
    \cup {Jwt("HS256", ChannelSecret, Claims(ChannelId, "https://evil.example", FALSE, n)) : n \in Tokens}
    \cup {Jwt("HS256", ChannelSecret, Claims(ChannelId, Issuer, TRUE, n)) : n \in Tokens}
IdTokens == ValidJwts \cup DefectJwts

\* jwt.verify(token, secret, {audience, issuer, algorithms}): the payload, or
\* a thrown error
jwt_verify(token, secret, audience, issuer, algorithms) ==
    IF /\ token.alg \in algorithms
       /\ token.key = secret
       /\ ~token.claims.expired
       /\ token.claims.aud = audience
       /\ token.claims.iss = issuer
    THEN [ok |-> TRUE, payload |-> token.claims]
    ELSE [ok |-> FALSE, payload |-> token.claims]

(* ---------------------------------------------------------------------- *)
(* Provider responses to the token request                                 *)
(* ---------------------------------------------------------------------- *)
TokenResponse(id_token) == [access_token |-> "access_token", id_token |-> id_token]
TokenResponses == {TokenResponse(t) : t \in IdTokens \cup {NoIdToken}}

NoResponse == [kind |-> "none"]
\* request.postAsync rejects (transport error)
TransportError == [kind |-> "error", message |-> "ECONNRESET"]
HttpResponse(statusCode, statusMessage, wellFormed, json) ==
    [kind |-> "http", statusCode |-> statusCode, statusMessage |-> statusMessage,
     wellFormed |-> wellFormed, json |-> json]
Responses ==
    {TransportError}
    \cup {HttpResponse(200, "OK", TRUE, t) : t \in TokenResponses}
    \cup {HttpResponse(200, "OK", FALSE, TokenResponse(NoIdToken))}
    \cup {HttpResponse(400, "Bad Request", TRUE, TokenResponse(NoIdToken)),
          HttpResponse(500, "Internal Server Error", FALSE, TokenResponse(NoIdToken))}

\* JSON.parse(response.body)
JSON_parse(response) ==
    IF response.wellFormed THEN [ok |-> TRUE, value |-> response.json]
    ELSE [ok |-> FALSE, value |-> "Unexpected token in JSON"]

\* variant: the body is parsed whatever the status code
issue_access_token_NoStatusCheck(response) ==
    IF response.kind = "error" THEN [resolved |-> FALSE, error |-> response.message]
    ELSE LET parsed == JSON_parse(response)
         IN  IF parsed.ok THEN [resolved |-> TRUE, value |-> parsed.value]
             ELSE [resolved |-> FALSE, error |-> parsed.value]

\* issue_access_token(code): how the promise settles for a given answer
issue_access_token(response) ==
    IF response.kind = "error" THEN [resolved |-> FALSE, error |-> response.message]
    ELSE IF response.statusCode = 200
         THEN LET parsed == JSON_parse(response)
              IN  IF parsed.ok THEN [resolved |-> TRUE, value |-> parsed.value]
                  ELSE [resolved |-> FALSE, error |-> parsed.value]
         ELSE [resolved |-> FALSE, error |-> response.statusMessage]

(* ---------------------------------------------------------------------- *)
(* The other operations on the provider's endpoints                        *)
(* ---------------------------------------------------------------------- *)
Null == [form |-> "null"]

\* verify_access_token(access_token)
verify_access_token(response) ==
    IF response.kind = "error" THEN [resolved |-> FALSE, error |-> response.message]
    ELSE IF response.statusCode = 200
         THEN LET parsed == JSON_parse(response)
              IN  IF parsed.ok THEN [resolved |-> TRUE, value |-> parsed.value]
                  ELSE [resolved |-> FALSE, error |-> parsed.value]
         ELSE [resolved |-> FALSE, error |-> response.statusMessage]

\* refresh_access_token(refresh_token)
refresh_access_token(response) ==
    IF response.kind = "error" THEN [resolved |-> FALSE, error |-> response.message]
    ELSE IF response.statusCode = 200
         THEN LET parsed == JSON_parse(response)
              IN  IF parsed.ok THEN [resolved |-> TRUE, value |-> parsed.value]
                  ELSE [resolved |-> FALSE, error |-> parsed.value]
         ELSE [resolved |-> FALSE, error |-> response.statusMessage]

\* variant: the body of a 200 is parsed and returned
revoke_access_token_ReturnsBody(response) ==
    IF response.kind = "error" THEN [resolved |-> FALSE, error |-> response.message]
    ELSE IF response.statusCode = 200
         THEN LET parsed == JSON_parse(response)
              IN  IF parsed.ok THEN [resolved |-> TRUE, value |-> parsed.value]
                  ELSE [resolved |-> FALSE, error |-> parsed.value]
         ELSE [resolved |-> FALSE, error |-> response.statusMessage]

\* revoke_access_token(access_token): the body of a 200 is not read
revoke_access_token(response) ==
    IF response.kind = "error" THEN [resolved |-> FALSE, error |-> response.message]
    ELSE IF response.statusCode = 200
         THEN [resolved |-> TRUE, value |-> Null]
         ELSE [resolved |-> FALSE, error |-> response.statusMessage]

\* get_user_profile(access_token)
get_user_profile(response) ==
    IF response.kind = "error" THEN [resolved |-> FALSE, error |-> response.message]
    ELSE IF response.statusCode = 200
         THEN LET parsed == JSON_parse(response)
              IN  IF parsed.ok THEN [resolved |-> TRUE, value |-> parsed.value]
                  ELSE [resolved |-> FALSE, error |-> parsed.value]
         ELSE [resolved |-> FALSE, error |-> response.statusMessage]

\* get_friendship_status(access_token)
get_friendship_status(response) ==
    IF response.kind = "error" THEN [resolved |-> FALSE, error |-> response.message]
    ELSE IF response.statusCode = 200
         THEN LET parsed == JSON_parse(response)
              IN  IF parsed.ok THEN [resolved |-> TRUE, value |-> parsed.value]
                  ELSE [resolved |-> FALSE, error |-> parsed.value]
         ELSE [resolved |-> FALSE, error |-> response.statusMessage]

Methods ==
    {"issue_access_token", "verify_access_token", "refresh_access_token",
     "revoke_access_token", "get_user_profile", "get_friendship_status"}

\* how the promise of a call of `method` settles for a given answer
Settle(method, response) ==
    CASE method = "issue_access_token" -> issue_access_token(response)
      [] method = "verify_access_token" -> verify_access_token(response)
      [] method = "refresh_access_token" -> refresh_access_token(response)
      [] method = "revoke_access_token" -> revoke_access_token(response)
      [] method = "get_user_profile" -> get_user_profile(response)
      [] method = "get_friendship_status" -> get_friendship_status(response)

(* ---------------------------------------------------------------------- *)
(* Error messages of the callback                                          *)
(* ---------------------------------------------------------------------- *)
NoError == "(none)"
AuthorizationFailed == "Authorization failed."
StateMismatch == "Authorization failed. State does not match."
VerificationFailed == "Verification of id token failed."
NoArg == [form |-> "none"]

(* ---------------------------------------------------------------------- *)
(* State                                                                   *)
(* ---------------------------------------------------------------------- *)
VARIABLES
    \* the options the constructor was called with, and what it returned
    options,
    instance,
    \* this.verify_id_token
    verify_id_token,
    \* whether callback(s, f) was given a failure handler f
    hasF,
    \* session[u]: req.session.line_login_state / line_login_nonce of user u
    session,
    \* request[r]: a callback request: not yet received ("new"), waiting for
    \* the token endpoint ("awaiting"), or finished ("done"); `fresh` is true
    \* while no auth() has run in its session since it passed the state check
    request,
    \* what the callback that has just finished did, until control is back in
    \* the event loop: its query, the answer of the token endpoint, and every
    \* handler invocation it made
    last,
    \* resolved[u]: the query of the callback that last ended in success in
    \* session u, while no auth() has run in that session since
    resolved,
    \* a call of one of the token and profile operations: which operation,
    \* the answer of the provider, and how the promise settled
    api,
    \* previous[u]: the state and nonce that the latest auth() of session u
    \* overwrote
    previous,
    \* the redirect auth() has just answered with, until control is back in
    \* the event loop
    redirect

vars == <<options, instance, verify_id_token, hasF, session, request, last,
          resolved, api, previous, redirect>>

EmptySession == [state |-> Undefined, nonce |-> Undefined]

NewRequest ==
    [pc |-> "new", session |-> "A", code |-> Undefined, state |-> Undefined, fresh |-> FALSE]
DoneRequest == [NewRequest EXCEPT !.pc = "done"]

\* the effects of one callback, before it has done anything
Effects(phase, u, code, state, response, exchanges) ==
    [phase |-> phase, session |-> u, code |-> code, state |-> state,
     response |-> response, exchanges |-> exchanges,
     stateCompared |-> FALSE, jwtCalls |-> 0, nonceRead |-> FALSE,
     sCalls |-> 0, sArg |-> NoArg, fCalls |-> 0, fErr |-> NoError,
     thrown |-> FALSE, deleted |-> FALSE]
NoCallback == Effects("none", "A", Undefined, Undefined, NoResponse, 0)
NoQuery == [code |-> Undefined, state |-> Undefined]

NoCall == [method |-> "none"]
NoRedirect == [session |-> "none"]

\* no flow has started
Idle ==
    /\ session = [u \in Sessions |-> EmptySession]
    /\ request = [r \in Reqs |-> NewRequest]
    /\ last = NoCallback
    /\ resolved = [u \in Sessions |-> NoQuery]
    /\ previous = [u \in Sessions |-> EmptySession]
    /\ redirect = NoRedirect

\* the instance was constructed with the required options, verify_id_token
\* left out or switched off, and callback(s, f) with or without f
Init ==
    /\ \E v \in {Absent, Bool(FALSE)} :
            options = [BaseOptions EXCEPT !.verify_id_token = v]
    /\ instance = constructor(options)
    /\ verify_id_token = instance.verify_id_token.bool
    /\ hasF \in BOOLEAN
    /\ Idle
    /\ api = NoCall

(* ---------------------------------------------------------------------- *)
(* f_(error): call f if given, else throw                                  *)
(* ---------------------------------------------------------------------- *)
\* variant: f is never called
f_NotCalled(eff, error) ==
    IF hasF THEN eff
    ELSE [eff EXCEPT !.thrown = TRUE]

\* variant: without f the error is dropped
f_SilentWithoutF(eff, error) ==
    IF hasF THEN [eff EXCEPT !.fCalls = @ + 1, !.fErr = error]
    ELSE eff

f_(eff, error) ==
    IF hasF THEN [eff EXCEPT !.fCalls = @ + 1, !.fErr = error]
    ELSE [eff EXCEPT !.thrown = TRUE]

(* ---------------------------------------------------------------------- *)
(* make_auth_url(state, nonce)                                             *)
(* ---------------------------------------------------------------------- *)
\* the percent-encoding of the texts of the model
PercentEncoded(t) ==
    CASE t = CallbackUrl -> "https%3A%2F%2Fexample.com%2Fcallback"
      [] t = "profile openid" -> "profile%20openid"
      [] OTHER -> t

\* encodeURIComponent(v): undefined becomes the text "undefined"; the
\* strings of hex digits have no character to escape
encodeURIComponent(v) ==
    IF v = Undefined THEN Text("undefined")
    ELSE IF "val" \in DOMAIN v THEN v
    ELSE Text(PercentEncoded(v.text))

\* variant: state and nonce change places
make_auth_url_Swapped(state, nonce) ==
    [endpoint |-> "https://access.line.me/oauth2/v2.1/authorize",
     response_type |-> "code",
     client_id |-> encodeURIComponent(instance.channel_id),
     redirect_uri |-> encodeURIComponent(instance.callback_url),
     scope |-> encodeURIComponent(instance.scope),
     bot_prompt |-> encodeURIComponent(instance.bot_prompt),
     state |-> nonce,
     prompt |-> IF Falsy(instance.prompt) THEN Absent
                ELSE encodeURIComponent(instance.prompt),
     nonce |-> IF Truthy(state) THEN encodeURIComponent(state) ELSE Absent]

\* variant: the prompt parameter is appended whether or not prompt is set
make_auth_url_PromptAlways(state, nonce) ==
    [endpoint |-> "https://access.line.me/oauth2/v2.1/authorize",
     response_type |-> "code",
     client_id |-> encodeURIComponent(instance.channel_id),
     redirect_uri |-> encodeURIComponent(instance.callback_url),
     scope |-> encodeURIComponent(instance.scope),
     bot_prompt |-> encodeURIComponent(instance.bot_prompt),
     state |-> state,
     prompt |-> encodeURIComponent(instance.prompt),
     nonce |-> IF Truthy(nonce) THEN encodeURIComponent(nonce) ELSE Absent]

\* the authorization URL: its endpoint and its query parameters
make_auth_url(state, nonce) ==
    [endpoint |-> "https://access.line.me/oauth2/v2.1/authorize",
     response_type |-> "code",
     client_id |-> encodeURIComponent(instance.channel_id),
     redirect_uri |-> encodeURIComponent(instance.callback_url),
     scope |-> encodeURIComponent(instance.scope),
     bot_prompt |-> encodeURIComponent(instance.bot_prompt),
     state |-> state,
     prompt |-> IF Falsy(instance.prompt) THEN Absent
                ELSE encodeURIComponent(instance.prompt),
     nonce |-> IF Truthy(nonce) THEN encodeURIComponent(nonce) ELSE Absent]

(* ---------------------------------------------------------------------- *)
(* auth(): the middleware that starts a flow                               *)
(* ---------------------------------------------------------------------- *)
Auth(u) ==
    /\ last = NoCallback
    /\ redirect = NoRedirect
    /\ \E state \in RandomValues, nonce \in RandomValues :
        /\ session' = [session EXCEPT ![u] = [state |-> state, nonce |-> nonce]]
        /\ redirect' = [session |-> u, url |-> make_auth_url(state, nonce)]
        /\ request' = [r \in Reqs |->
                IF request[r].pc = "awaiting" /\ request[r].session = u
                THEN [request[r] EXCEPT !.fresh = FALSE] ELSE request[r]]
        /\ resolved' = [resolved EXCEPT ![u] = NoQuery]
        /\ UNCHANGED <<verify_id_token, hasF, last>>

(* ---------------------------------------------------------------------- *)
(* callback(s, f): the synchronous part of the middleware                  *)
(* ---------------------------------------------------------------------- *)
\* variant: only an absent code counts as missing
CodeMissing_UndefinedOnly(code) == code.type = "undefined"

\* if (!code): the first early return
CodeMissing(code) == ~Truthy(code)

\* variant: only the presence of a returned state is checked
StateRejected_PresenceOnly(stored, state) == ~Truthy(state)

\* variant: a session that holds no state rejects nothing
StateRejected_AbsentAccepted(stored, state) ==
    stored.type = "string" /\ ~secure_compare(stored, state)

\* if (!secure_compare(req.session.line_login_state, state)): the second
StateRejected(stored, state) == ~secure_compare(stored, state)

CallbackReceive(r, u, code, state) ==
    /\ last = NoCallback
    /\ redirect = NoRedirect
    /\ request[r].pc = "new"
    \* requests are numbered in the order they arrive
    /\ \A q \in Reqs : q < r => request[q].pc # "new"
    /\ LET eff == Effects("sync", u, code, state, NoResponse, 0)
       IN  IF CodeMissing(code)
           THEN /\ last' = f_(eff, AuthorizationFailed)
                /\ request' = [request EXCEPT ![r] = DoneRequest]
           ELSE IF StateRejected(session[u].state, state)
           THEN /\ last' = f_([eff EXCEPT !.stateCompared = TRUE], StateMismatch)
                /\ request' = [request EXCEPT ![r] = DoneRequest]
           ELSE \* this.issue_access_token(code) is called
                /\ request' = [request EXCEPT ![r] =
                        [pc |-> "awaiting", session |-> u, code |-> code,
                         state |-> state, fresh |-> TRUE]]
                /\ UNCHANGED last
    /\ UNCHANGED <<verify_id_token, hasF, session, resolved, redirect>>

(* ---------------------------------------------------------------------- *)
(* callback(s, f): the .then / .catch chain on issue_access_token          *)
(* ---------------------------------------------------------------------- *)
\* variant: the id_token field is not replaced by the decoded claims
VerifyIdToken_KeepsRaw(token_response, stored_nonce) ==
    LET decoded == jwt_verify(token_response.id_token, ChannelSecret,
                              ChannelId, Issuer, {"HS256"})
    IN  IF ~decoded.ok
        THEN [ok |-> FALSE, jwtCalls |-> 1, nonceRead |-> FALSE,
              token_response |-> token_response]
        ELSE IF ~secure_compare(decoded.payload.nonce, stored_nonce)
        THEN [ok |-> FALSE, jwtCalls |-> 1, nonceRead |-> TRUE,
              token_response |-> token_response]
        ELSE [ok |-> TRUE, jwtCalls |-> 1, nonceRead |-> TRUE,
              token_response |-> token_response]

\* the try block: [ok, jwtCalls, nonceRead, token_response]
VerifyIdToken(token_response, stored_nonce) ==
    LET decoded == jwt_verify(token_response.id_token, ChannelSecret,
                              ChannelId, Issuer, {"HS256"})
    IN  IF ~decoded.ok
        THEN [ok |-> FALSE, jwtCalls |-> 1, nonceRead |-> FALSE,
              token_response |-> token_response]
        ELSE IF ~secure_compare(decoded.payload.nonce, stored_nonce)
        THEN [ok |-> FALSE, jwtCalls |-> 1, nonceRead |-> TRUE,
              token_response |-> token_response]
        ELSE [ok |-> TRUE, jwtCalls |-> 1, nonceRead |-> TRUE,
              token_response |-> [token_response EXCEPT !.id_token = decoded.payload]]

\* variant: the toggle is not consulted
Verifying_TokenOnly(token_response) ==
    token_response.id_token.form # "absent"

\* if (this.verify_id_token && token_response.id_token)
Verifying(token_response) ==
    verify_id_token /\ token_response.id_token.form # "absent"

\* whether the then-handler goes on to the deletes and to s(...) once the
\* try/catch statement is over: the catch block ends by calling f_, which
\* returns when f was given and throws otherwise
ReachesSuccess(ok) == ok \/ hasF

\* variants: only one of the two keys is deleted
DeleteNonceOnly(sess) == [sess EXCEPT !.nonce = Undefined]
DeleteStateOnly(sess) == [sess EXCEPT !.state = Undefined]

\* delete req.session.line_login_state; delete req.session.line_login_nonce
DeleteStateAndNonce(sess) == [sess EXCEPT !.state = Undefined, !.nonce = Undefined]

\* the token endpoint answers and the chain runs
CallbackComplete(r) ==
    /\ last = NoCallback
    /\ redirect = NoRedirect
    /\ request[r].pc = "awaiting"
    /\ \E response \in Responses :
       LET rq == request[r]
           u == rq.session
           eff == [Effects("async", u, rq.code, rq.state, response, 1)
                       EXCEPT !.stateCompared = TRUE]
           settled == issue_access_token(response)
       IN  IF ~settled.resolved
           THEN \* .catch((error) => f_(error))
                /\ last' = f_(eff, settled.error)
                /\ UNCHANGED <<session, resolved>>
           ELSE LET token_response == settled.value
                    v == IF Verifying(token_response)
                         THEN VerifyIdToken(token_response, session[u].nonce)
                         ELSE [ok |-> TRUE, jwtCalls |-> 0, nonceRead |-> FALSE,
                               token_response |-> token_response]
                    eff1 == [eff EXCEPT !.jwtCalls = v.jwtCalls,
                                        !.nonceRead = v.nonceRead]
                    eff2 == IF v.ok THEN eff1 ELSE f_(eff1, VerificationFailed)
                IN  IF ReachesSuccess(v.ok)
                    THEN /\ session' = [session EXCEPT ![u] = DeleteStateAndNonce(@)]
                         /\ last' = [eff2 EXCEPT !.deleted = TRUE, !.sCalls = @ + 1,
                                                 !.sArg = v.token_response]
                         /\ resolved' = IF v.ok
                                THEN [resolved EXCEPT ![u] = [code |-> rq.code, state |-> rq.state]]
                                ELSE resolved
                    ELSE \* f_ threw inside the catch block: the rejection
                         \* reaches .catch, which calls f_ again
                         /\ last' = f_(eff2, VerificationFailed)
                         /\ UNCHANGED <<session, resolved>>
    /\ request' = [request EXCEPT ![r] = DoneRequest]
    /\ UNCHANGED <<verify_id_token, hasF, redirect>>

\* the middleware (or the promise chain) has run to its end: control is back
\* in the event loop
Return ==
    /\ last # NoCallback \/ redirect # NoRedirect
    /\ last' = NoCallback
    /\ redirect' = NoRedirect
    /\ UNCHANGED <<verify_id_token, hasF, session, request, resolved>>

\* what no step of the flow changes
flowFrame == <<options, instance, api, previous>>

Next ==
    \/ \E u \in Sessions : Auth(u) /\ UNCHANGED flowFrame
    \/ \E r \in Reqs, u \in Sessions, code \in QueryCodes, state \in QueryStates :
            CallbackReceive(r, u, code, state) /\ UNCHANGED flowFrame
    \/ \E r \in Reqs : CallbackComplete(r) /\ UNCHANGED flowFrame
    \/ Return /\ UNCHANGED flowFrame

Spec == Init /\ [][Next]_vars

\* the flow of one session: to a callback, the handlers of another session
\* are only other occupants of the event loop, as the auth() calls and the
\* other callbacks of its own session are
NextOneSession ==
    \/ Auth("A") /\ UNCHANGED flowFrame
    \/ \E r \in Reqs, code \in QueryCodes, state \in QueryStates :
            CallbackReceive(r, "A", code, state) /\ UNCHANGED flowFrame
    \/ \E r \in Reqs : CallbackComplete(r) /\ UNCHANGED flowFrame
    \/ Return /\ UNCHANGED flowFrame

\* the provider (or the transport) answers every token request sooner or
\* later, and a handler that runs comes to its end; the answer is handled
\* once the event loop is free, however often other handlers run in between
SpecFair ==
    /\ Init /\ [][NextOneSession]_vars
    /\ \A r \in Reqs : SF_vars(CallbackComplete(r) /\ UNCHANGED flowFrame)
    /\ WF_vars(Return /\ UNCHANGED flowFrame)

(* ---------------------------------------------------------------------- *)
(* One session, with the pair each auth() overwrites kept for reference    *)
(* ---------------------------------------------------------------------- *)
\* what the steps of this specification leave alone
attemptFrame == <<options, instance, api>>

NextAttempts ==
    \/ /\ Auth("A")
       /\ previous' = [previous EXCEPT !["A"] = session["A"]]
       /\ UNCHANGED attemptFrame
    \/ \E r \in Reqs, code \in QueryCodes, state \in QueryStates :
            CallbackReceive(r, "A", code, state) /\ UNCHANGED <<attemptFrame, previous>>
    \/ \E r \in Reqs : CallbackComplete(r) /\ UNCHANGED <<attemptFrame, previous>>
    \/ Return /\ UNCHANGED <<attemptFrame, previous>>

SpecAttempts == Init /\ [][NextAttempts]_vars

(* ---------------------------------------------------------------------- *)
(* One operation on its own: a call, then the answer of the provider       *)
(* ---------------------------------------------------------------------- *)
Pending == [resolved |-> FALSE, pending |-> TRUE]

InitOperation ==
    /\ options = BaseOptions
    /\ instance = constructor(options)
    /\ verify_id_token = instance.verify_id_token.bool
    /\ hasF = FALSE
    /\ Idle
    /\ api = NoCall

\* the operation is called and its request is sent
Call(method) ==
    /\ api.method = "none"
    /\ api' = [method |-> method, response |-> NoResponse, settled |-> Pending]
    /\ UNCHANGED <<options, instance, verify_id_token, hasF, session, request,
                   last, resolved, previous, redirect>>

\* the provider answers (or the transport fails) and the promise settles;
\* the next call can then be made
Answer(response) ==
    /\ api.method # "none"
    /\ api.settled = Pending
    /\ api' = [api EXCEPT !.response = response, !.settled = Settle(api.method, response)]
    /\ UNCHANGED <<options, instance, verify_id_token, hasF, session, request,
                   last, resolved, previous, redirect>>

Settled ==
    /\ api.method # "none"
    /\ api.settled # Pending
    /\ api' = NoCall
    /\ UNCHANGED <<options, instance, verify_id_token, hasF, session, request,
                   last, resolved, previous, redirect>>

NextOperation ==
    \/ \E method \in Methods : Call(method)
    \/ \E response \in Responses : Answer(response)
    \/ Settled

SpecOperation == InitOperation /\ [][NextOperation]_vars

(* ---------------------------------------------------------------------- *)
(* Every accepted configuration: after construction, calls of the          *)
(* operations, then the flow of one session                                *)
(* ---------------------------------------------------------------------- *)
\* the documented options objects the constructor accepts
ConfiguredOptions ==
    {o \in AllOptions : constructor(o).ok /\ o.session_options = Absent}

InitConfigured ==
    /\ options \in ConfiguredOptions
    /\ instance = constructor(options)
    /\ verify_id_token = instance.verify_id_token.bool
    /\ hasF \in BOOLEAN
    /\ Idle
    /\ api = NoCall

\* no operation reads what a flow leaves behind, and no flow reads what an
\* operation returned: the calls of the operations are taken before the
\* first auth() or callback
NextConfigured ==
    \/ \E method \in Methods : Idle /\ Call(method)
    \/ \E response \in Responses : Idle /\ Answer(response)
    \/ Idle /\ Settled
    \/ api = NoCall /\ Auth("A") /\ UNCHANGED flowFrame
    \/ \E r \in Reqs, code \in QueryCodes, state \in QueryStates :
            api = NoCall /\ CallbackReceive(r, "A", code, state) /\ UNCHANGED flowFrame
    \/ \E r \in Reqs : api = NoCall /\ CallbackComplete(r) /\ UNCHANGED flowFrame
    \/ api = NoCall /\ Return /\ UNCHANGED flowFrame

SpecConfigured == InitConfigured /\ [][NextConfigured]_vars

(* ---------------------------------------------------------------------- *)
(* The constructor on its own: any options object, then new LineLogin(..)  *)
(* ---------------------------------------------------------------------- *)
InitConstructor ==
    /\ options \in AllOptions
    /\ instance = NotConstructed
    /\ verify_id_token = TRUE
    /\ hasF = FALSE
    /\ Idle
    /\ api = NoCall

Construct ==
    /\ instance = NotConstructed
    /\ instance' = constructor(options)
    /\ UNCHANGED <<options, verify_id_token, hasF, session, request, last,
                   resolved, api, previous, redirect>>

NextConstructor == Construct

SpecConstructor == InitConstructor /\ [][NextConstructor]_vars

TypeOK ==
    /\ verify_id_token \in BOOLEAN
    /\ hasF \in BOOLEAN
    /\ \A u \in Sessions :
        /\ session[u].state \in Tokens \cup {Undefined}
        /\ session[u].nonce \in Tokens \cup {Undefined}
    /\ \A r \in Reqs : request[r].pc \in {"new", "awaiting", "done"}
    /\ last.phase \in {"none", "sync", "async"}

(* ---------------------------------------------------------------------- *)
(* Vocabulary of the properties                                            *)
(* ---------------------------------------------------------------------- *)
\* request r is received in this step (the synchronous part runs)
ReceiveStep(r) == request[r].pc = "new" /\ request'[r].pc # "new"
\* the token endpoint answers request r in this step (the chain runs)
CompleteStep(r) == request[r].pc = "awaiting" /\ request'[r].pc = "done"
\* the query request r carried when it was received in this step
ReceivedQuery(r) == IF request'[r].pc = "awaiting" THEN request'[r] ELSE last'

\* the answer is a 200 whose body parses to a token response with an id token
HasIdToken(response) ==
    /\ response.kind = "http"
    /\ response.statusCode = 200
    /\ response.wellFormed
    /\ response.json.id_token.form = "jwt"
\* signature under the channel secret, HS256, audience, issuer, not expired
PassesVerification(token) ==
    /\ token.alg = "HS256"
    /\ token.key = ChannelSecret
    /\ token.claims.aud = ChannelId
    /\ token.claims.iss = Issuer
    /\ ~token.claims.expired
\* the nonce claim is the string the session holds
NonceMatches(token, stored) ==
    token.claims.nonce.type = "string" /\ token.claims.nonce = stored

(* ---------------------------------------------------------------------- *)
(* C1                                                                      *)
(* ---------------------------------------------------------------------- *)
\* C1: with verification enabled and an id token in the token response, the
\* success handler is invoked only if the id token passes verification and
\* its nonce claim equals the nonce stored in the session.
C1_SuccessOnlyIfVerified ==
    [][\A r \in Reqs :
        (/\ CompleteStep(r)
         /\ verify_id_token
         /\ HasIdToken(last'.response)
         /\ last'.sCalls > 0)
        => /\ PassesVerification(last'.response.json.id_token)
           /\ NonceMatches(last'.response.json.id_token,
                           session[request[r].session].nonce)]_vars

(* ---------------------------------------------------------------------- *)
(* C2                                                                      *)
(* ---------------------------------------------------------------------- *)
\* C2: with both handlers supplied, a callback that has run to its end has
\* invoked exactly one handler exactly once: either s once and f never, or
\* f once and s never.
C2_ExactlyOneHandler ==
    (hasF /\ last # NoCallback)
    => \/ last.sCalls = 1 /\ last.fCalls = 0
       \/ last.sCalls = 0 /\ last.fCalls = 1

(* ---------------------------------------------------------------------- *)
(* C3                                                                      *)
(* ---------------------------------------------------------------------- *)
\* C3: a callback that passed the state check, whose exchange returns 200
\* with an id token that verifies and whose nonce claim equals the stored
\* nonce, with verification enabled, invokes the success handler once with
\* the token response whose id_token is replaced by the decoded claims (the
\* other fields unchanged), and does not invoke the failure handler.
C3_VerifiedSuccess ==
    [][\A r \in Reqs :
        (/\ CompleteStep(r)
         /\ verify_id_token
         /\ HasIdToken(last'.response)
         /\ PassesVerification(last'.response.json.id_token)
         /\ NonceMatches(last'.response.json.id_token,
                         session[request[r].session].nonce))
        => /\ last'.sCalls = 1
           /\ last'.sArg = [last'.response.json EXCEPT
                                !.id_token = last'.response.json.id_token.claims]
           /\ last'.sArg.access_token = last'.response.json.access_token
           /\ last'.fCalls = 0
           /\ ~last'.thrown]_vars

\* a callback has just delivered decoded claims to the success handler
C3_Witness ==
    /\ last.phase = "async"
    /\ verify_id_token
    /\ last.sCalls = 1
    /\ last.fCalls = 0
    /\ last.sArg.id_token.form = "claims"
    /\ last.response.json.id_token.form = "jwt"

(* ---------------------------------------------------------------------- *)
(* C4                                                                      *)
(* ---------------------------------------------------------------------- *)
\* C4: a callback with a code whose returned state differs from the state
\* stored in the session ends in the synchronous part: the failure handler
\* (when supplied) receives 'Authorization failed. State does not match.',
\* the exchange is not invoked, the stored nonce is not read and the success
\* handler is not invoked.
C4_StateMismatch ==
    [][\A r \in Reqs :
        (/\ ReceiveStep(r)
         /\ Truthy(ReceivedQuery(r).code)
         /\ ReceivedQuery(r).state # session[ReceivedQuery(r).session].state)
        => /\ request'[r].pc = "done"
           /\ last'.phase = "sync"
           /\ last'.exchanges = 0
           /\ ~last'.nonceRead
           /\ last'.sCalls = 0
           /\ hasF => (last'.fCalls = 1 /\ last'.fErr = StateMismatch)]_vars

\* a callback carrying a string state other than the stored string state has
\* just been rejected
C4_Witness ==
    /\ last.phase = "sync"
    /\ Truthy(last.code)
    /\ last.state.type = "string"
    /\ session[last.session].state.type = "string"
    /\ last.state # session[last.session].state
    /\ last.fCalls = 1
    /\ last.fErr = StateMismatch

(* ---------------------------------------------------------------------- *)
(* C5                                                                      *)
(* ---------------------------------------------------------------------- *)
\* C5: a callback without a code ends with 'Authorization failed.' passed to
\* the failure handler (when supplied), whatever the returned state and the
\* stored state are; the state is not compared and the exchange not invoked.
C5_MissingCode ==
    [][\A r \in Reqs :
        (ReceiveStep(r) /\ ~Truthy(ReceivedQuery(r).code))
        => /\ request'[r].pc = "done"
           /\ last'.phase = "sync"
           /\ ~last'.stateCompared
           /\ last'.exchanges = 0
           /\ last'.sCalls = 0
           /\ hasF => (last'.fCalls = 1 /\ last'.fErr = AuthorizationFailed)]_vars

\* a callback without a code, carrying the very state the session holds, has
\* just been rejected
C5_Witness ==
    /\ last.phase = "sync"
    /\ ~Truthy(last.code)
    /\ last.state.type = "string"
    /\ last.state = session[last.session].state
    /\ last.fCalls = 1
    /\ last.fErr = AuthorizationFailed

(* ---------------------------------------------------------------------- *)
(* C6                                                                      *)
(* ---------------------------------------------------------------------- *)
\* C6: when the state matched, the exchange succeeded, verification is
\* enabled and the id token's signature, audience and issuer are valid but
\* its nonce differs from the stored nonce, the callback fails: the failure
\* handler (when supplied) receives 'Verification of id token failed.' and
\* the success handler is not invoked.
C6_NonceMismatchFails ==
    [][\A r \in Reqs :
        (/\ CompleteStep(r)
         /\ verify_id_token
         /\ HasIdToken(last'.response)
         /\ PassesVerification(last'.response.json.id_token)
         /\ ~NonceMatches(last'.response.json.id_token,
                          session[request[r].session].nonce))
        => /\ last'.sCalls = 0
           /\ hasF => (last'.fCalls = 1 /\ last'.fErr = VerificationFailed)]_vars

(* ---------------------------------------------------------------------- *)
(* C7                                                                      *)
(* ---------------------------------------------------------------------- *)
\* C7: once a callback has ended in success in a session, a later callback
\* in that session carrying the same code and state, with no auth() in
\* between, fails with the state-mismatch error and does not reach the
\* exchange.
C7_SequentialReplay ==
    [][\A r \in Reqs :
        (/\ ReceiveStep(r)
         /\ resolved[ReceivedQuery(r).session] # NoQuery
         /\ ReceivedQuery(r).code = resolved[ReceivedQuery(r).session].code
         /\ ReceivedQuery(r).state = resolved[ReceivedQuery(r).session].state)
        => /\ request'[r].pc = "done"
           /\ last'.phase = "sync"
           /\ last'.exchanges = 0
           /\ last'.sCalls = 0
           /\ hasF => (last'.fCalls = 1 /\ last'.fErr = StateMismatch)]_vars

\* the replay of a successful callback's query has just been rejected
C7_Witness ==
    /\ last.phase = "sync"
    /\ resolved[last.session] # NoQuery
    /\ resolved[last.session] = [code |-> last.code, state |-> last.state]
    /\ last.fCalls = 1
    /\ last.fErr = StateMismatch

(* ---------------------------------------------------------------------- *)
(* C8                                                                      *)
(* ---------------------------------------------------------------------- *)
\* C8: of two callback requests with the same code and state received in the
\* same session after one auth(), at most one passes the state check and
\* has the exchange invoked.
C8_ConcurrentReplay ==
    \A r1, r2 \in Reqs :
        (/\ r1 # r2
         /\ request[r1].pc = "awaiting"
         /\ request[r1].fresh
         /\ request[r1].session = request[r2].session
         /\ request[r1].code = request[r2].code
         /\ request[r1].state = request[r2].state)
        => ~(request[r2].pc = "awaiting" /\ request[r2].fresh)

(* ---------------------------------------------------------------------- *)
(* C9                                                                      *)
(* ---------------------------------------------------------------------- *)
\* C9 as stated: after any callback has run to completion in a session,
\* whether in success or in any failure, the session holds neither the state
\* nor the nonce.
C9_DeletedAfterAnyCallback ==
    last # NoCallback => session[last.session] = EmptySession

\* C9 as amended: a callback that has run to completion has emptied the
\* session of state and nonce if it reached the success handler, and has
\* left every session as it was otherwise (missing code, state mismatch,
\* exchange failure, verification failure without a failure handler).
C9_DeletedIffSuccessHandlerReached ==
    [][(last = NoCallback /\ last' # NoCallback)
        => IF last'.sCalls > 0
           THEN /\ session'[last'.session] = EmptySession
                /\ \A u \in Sessions \ {last'.session} : session'[u] = session[u]
           ELSE session' = session]_vars

\* a successful callback has just emptied the session it was validated in
C9_Witness ==
    /\ last.phase = "async"
    /\ last.sCalls = 1
    /\ last.fCalls = 0
    /\ last.deleted
    /\ session[last.session] = EmptySession

(* ---------------------------------------------------------------------- *)
(* C10                                                                     *)
(* ---------------------------------------------------------------------- *)
\* C10: when the state matched and the exchange returns a non-200 response,
\* the failure handler (when supplied) is invoked once with the provider's
\* status message, which is none of the callback's own messages, and the
\* success handler is not invoked.
C10_ExchangeRejected ==
    [][\A r \in Reqs :
        (/\ CompleteStep(r)
         /\ last'.response.kind = "http"
         /\ last'.response.statusCode # 200)
        => /\ last'.sCalls = 0
           /\ hasF => /\ last'.fCalls = 1
                      /\ last'.fErr = last'.response.statusMessage
                      /\ last'.fErr \notin
                            {AuthorizationFailed, StateMismatch, VerificationFailed}]_vars

\* a non-200 answer has just been reported to the failure handler
C10_Witness ==
    /\ last.phase = "async"
    /\ last.response.kind = "http"
    /\ last.response.statusCode = 400
    /\ last.fCalls = 1
    /\ last.fErr = "Bad Request"
    /\ last.sCalls = 0

(* ---------------------------------------------------------------------- *)
(* C11                                                                     *)
(* ---------------------------------------------------------------------- *)
\* the answer makes the exchange fail: transport error, non-200, or a body
\* that does not parse
ExchangeFails(response) ==
    \/ response.kind = "error"
    \/ response.kind = "http" /\ response.statusCode # 200
    \/ response.kind = "http" /\ response.statusCode = 200 /\ ~response.wellFormed

\* C11: when callback() was given no failure handler, every flow error
\* (missing code, state mismatch, exchange failure, id-token verification
\* failure, nonce mismatch) is thrown, not swallowed, and the success handler
\* is not invoked on any of these paths.
C11_FaultWithoutFailureHandler ==
    [][\A r \in Reqs :
        (/\ ~hasF
         /\ \/ ReceiveStep(r) /\ request'[r].pc = "done"
            \/ CompleteStep(r) /\ ExchangeFails(last'.response)
            \/ /\ CompleteStep(r)
               /\ verify_id_token
               /\ HasIdToken(last'.response)
               /\ ~(/\ PassesVerification(last'.response.json.id_token)
                    /\ NonceMatches(last'.response.json.id_token,
                                    session[request[r].session].nonce)))
        => /\ last'.thrown
           /\ last'.sCalls = 0
           /\ last'.fCalls = 0]_vars

\* without a failure handler, a nonce mismatch has just been thrown
C11_Witness ==
    /\ ~hasF
    /\ last.phase = "async"
    /\ last.nonceRead
    /\ last.thrown
    /\ last.sCalls = 0

(* ---------------------------------------------------------------------- *)
(* C12                                                                     *)
(* ---------------------------------------------------------------------- *)
\* the configuration keys the documentation of the constructor lists
DocumentedKeys ==
    {"channel_id", "channel_secret", "callback_url", "scope", "prompt",
     "bot_prompt", "verify_id_token"}
\* key k is in the options with a non-empty value
Given(k) == options[k] \notin {Absent, Undefined, Text("")}
MissingKeys == {k \in Range(required_params) : ~Given(k)}
OtherKeys == Keys(options) \ DocumentedKeys

\* C12: construction succeeds if and only if channel_id, channel_secret and
\* callback_url are present and non-empty and every key is one of the seven
\* documented keys; a missing required key throws "Required parameter <key>
\* is missing." naming that key, and any other key throws "<key> is not a
\* valid parameter."
C12_ConstructionValidatesOptions ==
    instance.constructed =>
        /\ instance.ok <=> (MissingKeys = {} /\ OtherKeys = {})
        /\ MissingKeys # {} =>
                /\ ~instance.ok
                /\ \E k \in MissingKeys :
                        instance.message = <<"Required parameter ", k, " is missing.">>
        /\ (MissingKeys = {} /\ OtherKeys # {}) =>
                /\ ~instance.ok
                /\ \E k \in OtherKeys :
                        instance.message = <<k, " is not a valid parameter.">>

(* ---------------------------------------------------------------------- *)
(* C13                                                                     *)
(* ---------------------------------------------------------------------- *)
\* a call has been answered by the provider with an HTTP response
Answered == api.method # "none" /\ api.settled # Pending /\ api.response.kind = "http"

\* C13: each of issue_access_token, refresh_access_token, verify_access_token,
\* revoke_access_token, get_user_profile and get_friendship_status settles a
\* 200 answer with the parsed body (null for revoke, whose body is not read),
\* and any other status with a rejection whose message is the provider's
\* status message, not the body.
C13_StatusMapsToResult ==
    Answered =>
        /\ (api.response.statusCode = 200 /\ api.method = "revoke_access_token") =>
                api.settled.resolved /\ api.settled.value = Null
        /\ (/\ api.response.statusCode = 200
            /\ api.method # "revoke_access_token"
            /\ api.response.wellFormed) =>
                api.settled.resolved /\ api.settled.value = api.response.json
        /\ api.response.statusCode # 200 =>
                /\ ~api.settled.resolved
                /\ api.settled.error = api.response.statusMessage

\* revoke_access_token was answered 200 with a body that parses
C13_Witness ==
    /\ Answered
    /\ api.method = "revoke_access_token"
    /\ api.response.statusCode = 200
    /\ api.response.wellFormed
    /\ api.settled.value = Null

(* ---------------------------------------------------------------------- *)
(* C14                                                                     *)
(* ---------------------------------------------------------------------- *)
\* C14: every callback request that is started ends by invoking a handler
\* and is never left pending, provided the token endpoint answers sooner or
\* later: a request that waits for the exchange is eventually finished, the
\* step that finishes it invokes s or f (or throws, when no f was given), and
\* a missing code or a state mismatch invokes f in the very step that
\* receives the request.
C14_EveryCallbackResolves ==
    /\ \A r \in Reqs : (request[r].pc = "awaiting") ~> (request[r].pc = "done")
    /\ [][\A r \in Reqs :
            /\ CompleteStep(r) =>
                    IF hasF THEN last'.sCalls + last'.fCalls >= 1
                    ELSE last'.sCalls = 1 \/ last'.thrown
            /\ (ReceiveStep(r) /\ request'[r].pc # "awaiting") =>
                    /\ request'[r].pc = "done"
                    /\ last'.sCalls = 0
                    /\ IF hasF THEN last'.fCalls = 1 ELSE last'.thrown]_vars

\* the second request waited for the token endpoint and has ended in the
\* failure handler
C14_Witness ==
    /\ hasF
    /\ request[2].pc = "done"
    /\ last.phase = "async"
    /\ last.fCalls = 1
    /\ last.sCalls = 0

(* ---------------------------------------------------------------------- *)
(* C16                                                                     *)
(* ---------------------------------------------------------------------- *)
\* issue_access_token is called for request r in this step
ExchangeStarts(r) == request[r].pc # "awaiting" /\ request'[r].pc = "awaiting"

\* C16: issue_access_token is invoked at most once per callback request, and
\* only once the request's code was present and its state equalled the stored
\* state; no failure of the exchange or of the verification invokes it again.
C16_ExchangeOnceAfterChecks ==
    [][\A r \in Reqs :
        /\ ExchangeStarts(r) =>
                /\ request[r].pc = "new"
                /\ Truthy(request'[r].code)
                /\ session[request'[r].session].state.type = "string"
                /\ request'[r].state = session[request'[r].session].state
        /\ request[r].pc = "awaiting" => request'[r].pc \in {"awaiting", "done"}
        /\ request[r].pc = "done" => request'[r].pc = "done"
        /\ CompleteStep(r) => last'.exchanges = 1
        /\ (ReceiveStep(r) /\ ~ExchangeStarts(r)) => last'.exchanges = 0]_vars

\* a callback whose id token failed verification has ended after its one
\* exchange
C16_Witness ==
    /\ last.phase = "async"
    /\ last.exchanges = 1
    /\ last.fErr = VerificationFailed
    /\ \A r \in Reqs : request[r].pc = "done"

(* ---------------------------------------------------------------------- *)
(* C18                                                                     *)
(* ---------------------------------------------------------------------- *)
\* auth() runs in this step
InitiateStep == redirect = NoRedirect /\ redirect' # NoRedirect

\* C18: every auth() stores a newly generated state and nonce in the current
\* session, whatever pair the session held, and redirects to a URL whose state
\* parameter is the state just stored and whose nonce parameter is the nonce
\* just stored; hence a callback that carries the stored state (the state of
\* the latest redirect URL) together with a code passes the state check.
C18_InitiateStoresWhatItSends ==
    [][/\ InitiateStep =>
            LET u == redirect'.session
                url == redirect'.url
            IN  /\ session'[u].state \in RandomValues
                /\ session'[u].nonce \in RandomValues
                /\ url.state = session'[u].state
                /\ url.nonce = session'[u].nonce
                /\ \A w \in Sessions \ {u} : session'[w] = session[w]
       /\ \A r \in Reqs :
            (/\ ReceiveStep(r)
             /\ Truthy(ReceivedQuery(r).code)
             /\ session[ReceivedQuery(r).session].state.type = "string"
             /\ ReceivedQuery(r).state = session[ReceivedQuery(r).session].state)
            => ExchangeStarts(r)]_vars

\* auth() has just overwritten the pair under which the first request passed
\* the state check
C18_Witness ==
    /\ redirect # NoRedirect
    /\ request[1].pc = "awaiting"
    /\ request[1].session = redirect.session
    /\ ~request[1].fresh
    /\ redirect.url.state = session[redirect.session].state
    /\ redirect.url.state # request[1].state

(* ---------------------------------------------------------------------- *)
(* C17                                                                     *)
(* ---------------------------------------------------------------------- *)
\* C17: a callback leaves the stored state and nonce alone when it starts its
\* exchange, for as long as the exchange is outstanding, and when the exchange
\* fails: the session changes only in an auth() step or in the step of a
\* callback that reaches the success handler.  So the state a failed callback
\* carried still passes the state check, and a later callback carrying it
\* with a code reaches the exchange.
C17_SessionKeptUntilSuccess ==
    [][/\ \A r \in Reqs :
            /\ ExchangeStarts(r) => session' = session
            /\ (CompleteStep(r) /\ ExchangeFails(last'.response)) =>
                    /\ session' = session
                    /\ ~last'.deleted
                    /\ session[last'.session].state = last'.state
                            => ~StateRejected(session'[last'.session].state, last'.state)
            /\ (/\ ReceiveStep(r)
                /\ Truthy(ReceivedQuery(r).code)
                /\ ~StateRejected(session[ReceivedQuery(r).session].state,
                                  ReceivedQuery(r).state))
               => ExchangeStarts(r) /\ request'[r].fresh
       /\ session' # session =>
            \/ InitiateStep
            \/ \E r \in Reqs : CompleteStep(r) /\ last'.sCalls = 1]_vars

\* the exchange of a callback has failed, the session still holds the state
\* that callback carried, and the next request has not been received yet
C17_Witness ==
    /\ last.phase = "async"
    /\ ExchangeFails(last.response)
    /\ last.sCalls = 0
    /\ session[last.session].state = last.state
    /\ session[last.session].nonce \in Tokens
    /\ request[1].pc = "done"
    /\ request[2].pc = "new"

(* ---------------------------------------------------------------------- *)
(* C19                                                                     *)
(* ---------------------------------------------------------------------- *)
\* session u has seen two consecutive auth() calls: the second overwrote the
\* pair of the first, and the generator returned other values
Superseded(u) ==
    /\ previous[u].state \in Tokens
    /\ previous[u].state # session[u].state
    /\ previous[u].nonce # session[u].nonce

\* C19: state and nonce are never reused across attempts.  After two
\* consecutive auth() calls in a session, a callback carrying the state of the
\* first attempt ends in a state mismatch and starts no exchange, and a
\* callback whose id token carries the nonce of the first attempt fails
\* verification and does not reach the success handler: only the pair of the
\* latest attempt is accepted.
C19_OnlyLatestAttemptAccepted ==
    [][\A r \in Reqs :
        /\ (/\ ReceiveStep(r)
            /\ Superseded(ReceivedQuery(r).session)
            /\ Truthy(ReceivedQuery(r).code)
            /\ ReceivedQuery(r).state = previous[ReceivedQuery(r).session].state)
           => /\ ~ExchangeStarts(r)
              /\ last'.sCalls = 0
              /\ IF hasF THEN last'.fErr = StateMismatch ELSE last'.thrown
        /\ (/\ CompleteStep(r)
            /\ Superseded(request[r].session)
            /\ verify_id_token
            /\ HasIdToken(last'.response)
            /\ last'.response.json.id_token.claims.nonce = previous[request[r].session].nonce)
           => /\ last'.sCalls = 0
              /\ IF hasF THEN last'.fErr = VerificationFailed ELSE last'.thrown]_vars

(* ---------------------------------------------------------------------- *)
(* C20                                                                     *)
(* ---------------------------------------------------------------------- *)
\* C20: when verification is switched off, or is on but the token response
\* has no id token, a callback whose exchange succeeds calls s once with the
\* token response exactly as the provider returned it; jwt.verify is not
\* called, the stored nonce is not compared, and f is not called.
C20_NoVerificationPassThrough ==
    [][\A r \in Reqs :
        (/\ CompleteStep(r)
         /\ ~ExchangeFails(last'.response)
         /\ ~verify_id_token \/ ~HasIdToken(last'.response))
        => /\ last'.sCalls = 1
           /\ last'.sArg = last'.response.json
           /\ last'.jwtCalls = 0
           /\ ~last'.nonceRead
           /\ last'.fCalls = 0
           /\ ~last'.thrown]_vars

\* with verification switched off, a token response whose id token would not
\* verify has been handed to s as it came
C20_Witness ==
    /\ ~verify_id_token
    /\ last.phase = "async"
    /\ last.response.kind = "http"
    /\ last.response.json.id_token \in DefectJwts
    /\ last.sCalls = 1
    /\ last.sArg = last.response.json
    /\ session[last.session] = EmptySession

(* ---------------------------------------------------------------------- *)
(* C21                                                                     *)
(* ---------------------------------------------------------------------- *)
\* C21: a callback received in a session that holds no state (never
\* initiated, or already consumed) never passes the state check and never
\* starts the exchange, whatever its query is: a query with a code and no
\* state parameter at all included.
C21_IdleSessionRejects ==
    [][\A r \in Reqs :
        (/\ ReceiveStep(r)
         /\ session[ReceivedQuery(r).session].state = Undefined)
        => /\ ~ExchangeStarts(r)
           /\ request'[r].pc = "done"
           /\ last'.exchanges = 0
           /\ last'.sCalls = 0
           /\ IF hasF
              THEN last'.fErr = IF Truthy(last'.code) THEN StateMismatch
                                ELSE AuthorizationFailed
              ELSE last'.thrown]_vars

\* a flow of the session has been consumed, and a callback with a code and
\* no state parameter has just been rejected there
C21_Witness ==
    /\ last.phase = "sync"
    /\ Truthy(last.code)
    /\ last.state = Undefined
    /\ session[last.session] = EmptySession
    /\ resolved[last.session] # NoQuery
    /\ last.stateCompared
    /\ last.sCalls = 0

(* ---------------------------------------------------------------------- *)
(* C22                                                                     *)
(* ---------------------------------------------------------------------- *)
\* request r passed the state check under an earlier pair, and an auth() of
\* its session has since stored another state, which is still there
Overtaken(r) ==
    /\ request[r].pc = "awaiting"
    /\ ~request[r].fresh
    /\ session[request[r].session].state \in Tokens
    /\ session[request[r].session].state # request[r].state

\* C22: when auth() stores a new state S2 and nonce N2 while an earlier
\* callback of the same session waits for its exchange, the completion of the
\* earlier callback neither deletes S2 and N2 nor compares its id token with
\* N2, so a callback carrying S2 still passes the state check afterwards.
C22_CompletionSparesNewerFlow ==
    [][\A r \in Reqs :
        (Overtaken(r) /\ CompleteStep(r))
        => /\ session'[request[r].session] = session[request[r].session]
           /\ ~last'.deleted
           /\ ~last'.nonceRead
           /\ ~StateRejected(session'[request[r].session].state,
                             session[request[r].session].state)]_vars

(* ---------------------------------------------------------------------- *)
(* C23                                                                     *)
(* ---------------------------------------------------------------------- *)
\* the sessions other than u keep their state and nonce in this step
OthersKept(u) == \A w \in Sessions \ {u} : session'[w] = session[w]

\* C23: flows in different sessions are independent.  An auth() or a callback
\* of one session (the completion of its exchange and its deletes included)
\* leaves the state and nonce of every other session unchanged, and a
\* callback that carries in one session the state issued to another, which
\* is not the state its own session holds, fails the state check.
C23_SessionsIndependent ==
    [][/\ InitiateStep => OthersKept(redirect'.session)
       /\ \A r \in Reqs :
            /\ ReceiveStep(r) => session' = session
            /\ CompleteStep(r) => OthersKept(request[r].session)
            /\ (/\ ReceiveStep(r)
                /\ Truthy(ReceivedQuery(r).code)
                /\ ReceivedQuery(r).state # session[ReceivedQuery(r).session].state
                /\ \E w \in Sessions \ {ReceivedQuery(r).session} :
                        ReceivedQuery(r).state = session[w].state)
               => /\ ~ExchangeStarts(r)
                  /\ last'.stateCompared
                  /\ last'.sCalls = 0
                  /\ IF hasF THEN last'.fErr = StateMismatch ELSE last'.thrown]_vars

\* both sessions have a flow pending, and a callback that carried the state
\* of the other session has just been rejected
C23_Witness ==
    /\ last.phase = "sync"
    /\ last.stateCompared
    /\ last.state \in Tokens
    /\ session[last.session].state \in Tokens
    /\ session[last.session].state # last.state
    /\ \E w \in Sessions \ {last.session} : session[w].state = last.state

(* ---------------------------------------------------------------------- *)
(* C24                                                                     *)
(* ---------------------------------------------------------------------- *)
\* C24: in every reachable state a session holds the state and the nonce
\* either both or neither: auth() sets both in one step, the callback deletes
\* both in one step, and no step sets or deletes only one of them.
C24_StateAndNonceTogether ==
    \A u \in Sessions :
        /\ session[u].state = Undefined <=> session[u].nonce = Undefined
        /\ session[u].state \in Tokens <=> session[u].nonce \in Tokens

\* one session has had its pair deleted by a callback while the other holds
\* a pair
C24_Witness ==
    \E u, w \in Sessions :
        /\ last.phase = "async"
        /\ last.deleted
        /\ last.session = u
        /\ session[u] = EmptySession
        /\ session[w].state \in Tokens
        /\ session[w].nonce \in Tokens

(* ---------------------------------------------------------------------- *)
(* C25                                                                     *)
(* ---------------------------------------------------------------------- *)
\* option k was given to the constructor
Configured(k) == options[k] # Absent

\* C25: the authorization URL auth() redirects to contains
\* response_type=code, the percent-encoded client id, redirect URL and scope,
\* the bot_prompt value and the stored state; it has a prompt parameter if and
\* only if prompt is configured; and it has the nonce parameter whenever
\* id-token verification is enabled.
C25_AuthorizationUrl ==
    redirect # NoRedirect =>
        LET url == redirect.url
        IN  /\ url.endpoint = "https://access.line.me/oauth2/v2.1/authorize"
            /\ url.response_type = "code"
            /\ url.client_id = Text("channel_id")
            /\ url.redirect_uri = Text("https%3A%2F%2Fexample.com%2Fcallback")
            /\ url.scope = IF Configured("scope") THEN Text("profile")
                           ELSE Text("profile%20openid")
            /\ url.bot_prompt = IF Configured("bot_prompt") THEN Text("aggressive")
                                ELSE Text("normal")
            /\ url.state \in Tokens
            /\ url.state = session[redirect.session].state
            /\ url.prompt # Absent <=> Configured("prompt")
            /\ Configured("prompt") => url.prompt = Text("consent")
            /\ verify_id_token =>
                    /\ url.nonce \in Tokens
                    /\ url.nonce = session[redirect.session].nonce

\* auth() has redirected with a default scope, a configured prompt and
\* verification enabled
C25_Witness ==
    /\ redirect # NoRedirect
    /\ ~Configured("scope")
    /\ Configured("prompt")
    /\ verify_id_token
    /\ redirect.url.scope = Text("profile%20openid")
    /\ redirect.url.prompt = Text("consent")
    /\ redirect.url.nonce \in Tokens

(* ---------------------------------------------------------------------- *)
(* C26                                                                     *)
(* ---------------------------------------------------------------------- *)
\* the value the instance holds for an option with a default
Defaulted(k, default) == IF Configured(k) THEN options[k] ELSE default

\* C26: after a successful construction scope is "profile openid" when not
\* given, bot_prompt is "normal" when not given, verify_id_token is true when
\* not given and the given value (false in particular) when given, the three
\* required values are stored as given, and no later operation (auth,
\* callback, the token and profile operations) modifies the configuration.
C26_ConfigurationDefaultsKept ==
    /\ [](instance.ok =>
            /\ instance.channel_id = options.channel_id
            /\ instance.channel_secret = options.channel_secret
            /\ instance.callback_url = options.callback_url
            /\ instance.scope = Defaulted("scope", Text("profile openid"))
            /\ instance.bot_prompt = Defaulted("bot_prompt", Text("normal"))
            /\ instance.verify_id_token = Defaulted("verify_id_token", Bool(TRUE))
            /\ verify_id_token = instance.verify_id_token.bool)
    /\ [][instance' = instance /\ verify_id_token' = verify_id_token]_vars

\* built with verify_id_token: false and no scope, the instance has been
\* through an auth() and a callback that ended in s
C26_Witness ==
    /\ options.verify_id_token = Bool(FALSE)
    /\ instance.verify_id_token = Bool(FALSE)
    /\ ~Configured("scope")
    /\ instance.scope = Text("profile openid")
    /\ last.phase = "async"
    /\ last.sCalls = 1
====
